---- MODULE Spec2Model ----
(***************************************************************************)
(* Model of schema-mongo: the JSON Schema -> MongoDB $jsonSchema converter  *)
(* (src/src/lib.ts, and the second definition of it in src/src/index.ts),   *)
(* and the Zod adapter (src/src/adapters/zod.ts).                           *)
(*                                                                         *)
(* JavaScript values are tagged tuples, so that values of different kinds   *)
(* can sit in one set and be compared:                                      *)
(*   <<"undefined">>  <<"null">>  <<"string", s>>  <<"number", n>>          *)
(*   <<"boolean", b>> <<"array", seq>>  <<"object", [key |-> value]>>       *)
(*   <<"function", name, text>>                                             *)
(***************************************************************************)
EXTENDS Integers, Sequences, FiniteSets, TLC

VARIABLES
  schema,     \* the JSON-Schema-shaped document handed to the converter
  zodType,    \* the Zod schema handed to the adapter
  options,    \* the adapter's options argument
  fallback,   \* what z.toJSONSchema does with a kind the adapter does not know
  result,     \* what the last operation returned
  pc,         \* the last operation that ran
  _types,     \* the Map of a MongoTypeRegistry: its entries in insertion order
  args,       \* the arguments of the last call on the registry
  calls       \* the register and clear calls made on the registry so far

vars == <<schema, zodType, options, fallback, result, pc, _types, args, calls>>

----------------------------------------------------------------------------
(* JavaScript values *)

Undefined == <<"undefined">>
Null      == <<"null">>
Str(s)    == <<"string", s>>
Num(n)    == <<"number", n>>
Bool(b)   == <<"boolean", b>>
Arr(s)    == <<"array", s>>
Obj(f)    == <<"object", f>>
Fn(name, text) == <<"function", name, text>>   \* text: the tokens of toString()
Threw(e)  == <<"throw", e>>                    \* an exception leaving a call
OObj(s)   == <<"entries", s>>                  \* an object by its entries, in key order

EmptyObject == Obj(<<>>)

IsString(v) == v[1] = "string"
IsArray(v)  == v[1] = "array"

IsThrow(v)  == v[1] = "throw"

\* typeof v === 'object' && v !== null
IsObject(v) == v[1] \in {"object", "array", "entries"}

\* typeof v
TypeOf(v) ==
  CASE v[1] \in {"object", "array", "entries", "null"} -> "object"
    [] OTHER -> v[1]

\* JavaScript truthiness
Truthy(v) ==
  CASE v[1] \in {"undefined", "null"} -> FALSE
    [] v[1] = "string"  -> v[2] # ""
    [] v[1] = "number"  -> v[2] # 0
    [] v[1] = "boolean" -> v[2]
    [] OTHER -> TRUE

\* The keys Object.entries(v) lists: own keys of an object, indices of an array
OwnKeys(v) ==
  CASE v[1] = "object"  -> DOMAIN v[2]
    [] v[1] = "array"   -> { ToString(i - 1) : i \in DOMAIN v[2] }
    [] v[1] = "entries" -> { v[2][i][1] : i \in DOMAIN v[2] }
    [] OTHER -> {}

\* v[key] for an own key of v, undefined otherwise (data objects and primitives)
Get(v, key) ==
  CASE v[1] = "object" /\ key \in DOMAIN v[2] -> v[2][key]
    [] v[1] = "array" /\ key \in OwnKeys(v) ->
         v[2][CHOOSE i \in DOMAIN v[2] : ToString(i - 1) = key]
    [] v[1] = "entries" /\ key \in OwnKeys(v) ->
         v[2][CHOOSE i \in DOMAIN v[2] : v[2][i][1] = key][2]
    [] OTHER -> Undefined

Has(v, key) == key \in OwnKeys(v)

\* The members every object literal inherits from Object.prototype
ObjectPrototypeKeys ==
  { "constructor", "toString", "toLocaleString", "valueOf", "hasOwnProperty",
    "isPrototypeOf", "propertyIsEnumerable", "__proto__" }

\* table[key] on an object literal: own entries first, then the prototype chain
Index(table, key) ==
  CASE IsString(key) /\ key[2] \in DOMAIN table[2] -> table[2][key[2]]
    [] IsString(key) /\ key[2] \in ObjectPrototypeKeys -> Fn(key[2], <<"native code">>)
    [] OTHER -> Undefined

\* a || b
Or(a, b) == IF Truthy(a) THEN a ELSE b

----------------------------------------------------------------------------
(* src/src/lib.ts: the hint-aware converter *)

TYPE_MAPPING ==
  Obj([string  |-> Str("string"),
       number  |-> Str("double"),
       integer |-> Str("int"),
       boolean |-> Str("bool"),
       array   |-> Str("array"),
       object  |-> Str("object"),
       null    |-> Str("null")])

\* mutant: format is not on the list
UNSUPPORTED_KEYWORDS_NoFormat ==
  { "title", "description", "examples", "$schema", "default",
    "additionalProperties", "__mongoType" }

UNSUPPORTED_KEYWORDS ==
  { "title", "description", "examples", "$schema", "default", "format",
    "additionalProperties", "__mongoType" }

\* TYPE_MAPPING[type] || type
MapType(type) == Or(Index(TYPE_MAPPING, type), type)

\* mutant: only the hints date and objectId are known
MongoTypeTag_KnownOnly(s) ==
  LET hint == Get(s, "__mongoType") IN
  IF hint \in { Str("date"), Str("objectId") } THEN [bsonType |-> hint] ELSE <<>>

\* mutant: a truthy hint is the tag whatever its type
MongoTypeTag_AnyHint(s) ==
  LET hint == Get(s, "__mongoType") IN
  IF Truthy(hint) THEN [bsonType |-> hint] ELSE <<>>

\* mutant: the hint is never looked at
MongoTypeTag_NoHint(s) == <<>>

\* "Handle special MongoDB types first": the result object after the switch
MongoTypeTag(s) ==
  LET hint == Get(s, "__mongoType") IN
  IF Truthy(hint)
    THEN CASE hint = Str("date")     -> [bsonType |-> Str("date")]
           [] hint = Str("objectId") -> [bsonType |-> Str("objectId")]
           [] OTHER -> IF IsString(hint) THEN [bsonType |-> hint]
                                         ELSE <<>>    \* console.warn only
    ELSE <<>>

\* "Convert type to bsonType (skip if we already set bsonType from __mongoType)"
TypeTag(s, r) ==
  LET type == Get(s, "type") IN
  IF Truthy(type) /\ ~Truthy(Get(Obj(r), "bsonType"))
    THEN IF IsArray(type)
           THEN [bsonType |-> Arr([i \in DOMAIN type[2] |-> MapType(type[2][i])])]
           ELSE [bsonType |-> MapType(type)]
    ELSE r

RECURSIVE convertJsonSchemaToMongoSchema(_)

\* mutant: the property values are copied, not converted
ConvertProperties_Shallow(value) ==
  Obj([propKey \in { k \in OwnKeys(value) : IsObject(Get(value, k)) } |->
         Get(value, propKey)])

\* mutant: fields named like skipped keywords are skipped too
ConvertProperties_SkipsKeywords(value) ==
  Obj([propKey \in { k \in OwnKeys(value) \ ({"type"} \cup UNSUPPORTED_KEYWORDS) :
                       IsObject(Get(value, k)) } |->
         convertJsonSchemaToMongoSchema(Get(value, propKey))])

\* result.properties: one converted entry per property whose value is an object
ConvertProperties(value) ==
  Obj([propKey \in { k \in OwnKeys(value) : IsObject(Get(value, k)) } |->
         convertJsonSchemaToMongoSchema(Get(value, propKey))])

\* mutant: the list is copied, its elements not converted
ConvertItems_Shallow(value) == value

\* value.map(item => object ? convert(item) : item)
ConvertItems(value) ==
  Arr([i \in DOMAIN value[2] |->
         IF IsObject(value[2][i]) THEN convertJsonSchemaToMongoSchema(value[2][i])
                                  ELSE value[2][i]])

\* mutant: items and not are converted whatever their value is
CopyKey_Unguarded(key, value) ==
  CASE key = "properties" /\ IsObject(value) -> ConvertProperties(value)
    [] key = "items" -> convertJsonSchemaToMongoSchema(value)
    [] key \in {"allOf", "anyOf", "oneOf"} /\ IsArray(value) -> ConvertItems(value)
    [] key = "not" -> convertJsonSchemaToMongoSchema(value)
    [] OTHER -> value

\* The body of the copy loop for one [key, value] entry that is not skipped
CopyKey(key, value) ==
  CASE key = "properties" /\ IsObject(value) -> ConvertProperties(value)
    [] key = "items" /\ IsObject(value) -> convertJsonSchemaToMongoSchema(value)
    [] key \in {"allOf", "anyOf", "oneOf"} /\ IsArray(value) -> ConvertItems(value)
    [] key = "not" /\ IsObject(value) -> convertJsonSchemaToMongoSchema(value)
    [] OTHER -> value

\* mutant: required is skipped with the unsupported keywords
CopiedKeys_SkipsRequired(s) ==
  OwnKeys(s) \ ({"type", "required"} \cup UNSUPPORTED_KEYWORDS)

\* mutant: bsonType is skipped like type
CopiedKeys_SkipsBsonType(s) ==
  OwnKeys(s) \ ({"type", "bsonType"} \cup UNSUPPORTED_KEYWORDS)

\* The keys the copy loop does not skip
CopiedKeys(s) == OwnKeys(s) \ ({"type"} \cup UNSUPPORTED_KEYWORDS)

\* mutant: the tag from the hint or the type is written last
convertJsonSchemaToMongoSchema_TagLast(s) ==
  IF s \in {Undefined, Null} THEN Threw("TypeError") ELSE
  LET tagged == TypeTag(s, MongoTypeTag(s))
      copied == [key \in CopiedKeys(s) |-> CopyKey(key, Get(s, key))]
  IN  Obj(tagged @@ copied)

convertJsonSchemaToMongoSchema(s) ==
  IF s \in {Undefined, Null} THEN Threw("TypeError") ELSE  \* schema.__mongoType of null
  LET tagged == TypeTag(s, MongoTypeTag(s))
      copied == [key \in CopiedKeys(s) |-> CopyKey(key, Get(s, key))]
  IN  Obj(copied @@ tagged)      \* the loop runs last: its assignments win

----------------------------------------------------------------------------
(* src/src/index.ts: the converter index.ts defines itself; a module's own  *)
(* export shadows the same name re-exported by `export * from './lib.js'`,  *)
(* so this is what `import { convertJsonSchemaToMongoSchema } from          *)
(* '../index'` binds in the adapter.                                        *)

index_TYPE_MAPPING ==
  Obj([string  |-> Str("string"),
       number  |-> Str("double"),
       integer |-> Str("int"),
       boolean |-> Str("bool"),
       array   |-> Str("array"),
       object  |-> Str("object"),
       null    |-> Str("null")])

index_UNSUPPORTED_KEYWORDS ==
  { "title", "description", "examples", "$schema", "default", "format",
    "additionalProperties" }

index_MapType(type) == Or(Index(index_TYPE_MAPPING, type), type)

index_TypeTag(s) ==
  LET type == Get(s, "type") IN
  IF Truthy(type)
    THEN IF IsArray(type)
           THEN [bsonType |-> Arr([i \in DOMAIN type[2] |-> index_MapType(type[2][i])])]
           ELSE [bsonType |-> index_MapType(type)]
    ELSE <<>>

RECURSIVE index_convertJsonSchemaToMongoSchema(_)

index_ConvertProperties(value) ==
  Obj([propKey \in { k \in OwnKeys(value) : IsObject(Get(value, k)) } |->
         index_convertJsonSchemaToMongoSchema(Get(value, propKey))])

index_ConvertItems(value) ==
  Arr([i \in DOMAIN value[2] |->
         IF IsObject(value[2][i])
           THEN index_convertJsonSchemaToMongoSchema(value[2][i])
           ELSE value[2][i]])

index_CopyKey(key, value) ==
  CASE key = "properties" /\ IsObject(value) -> index_ConvertProperties(value)
    [] key = "items" /\ IsObject(value) -> index_convertJsonSchemaToMongoSchema(value)
    [] key \in {"allOf", "anyOf", "oneOf"} /\ IsArray(value) -> index_ConvertItems(value)
    [] key = "not" /\ IsObject(value) -> index_convertJsonSchemaToMongoSchema(value)
    [] OTHER -> value

index_CopiedKeys(s) == OwnKeys(s) \ ({"type"} \cup index_UNSUPPORTED_KEYWORDS)

index_convertJsonSchemaToMongoSchema(s) ==
  IF s \in {Undefined, Null} THEN Threw("TypeError") ELSE  \* schema.type of null
  LET tagged == index_TypeTag(s)
      copied == [key \in index_CopiedKeys(s) |-> index_CopyKey(key, Get(s, key))]
  IN  Obj(copied @@ tagged)

----------------------------------------------------------------------------
(* src/src/registry/MongoTypeRegistry.ts: _types is a Map, modelled by its  *)
(* entries in insertion order, each <<name, typeInfo>>                      *)

\* mutant: validators are compared by their definition, not by reference
findByValidator_ByDefinition(types, validator) ==
  IF \E i \in DOMAIN types :
       Get(Get(types[i][2], "schema"), "_def") = Get(validator, "_def")
    THEN Str(types[CHOOSE i \in DOMAIN types :
                 /\ Get(Get(types[i][2], "schema"), "_def") = Get(validator, "_def")
                 /\ \A j \in 1..(i - 1) :
                      Get(Get(types[j][2], "schema"), "_def") # Get(validator, "_def")][1])
    ELSE Undefined

\* this._types.entries(): the first name whose typeInfo.schema === validator
findByValidator(types, validator) ==
  IF \E i \in DOMAIN types : Get(types[i][2], "schema") = validator
    THEN Str(types[CHOOSE i \in DOMAIN types :
                 /\ Get(types[i][2], "schema") = validator
                 /\ \A j \in 1..(i - 1) : Get(types[j][2], "schema") # validator][1])
    ELSE Undefined

----------------------------------------------------------------------------
(* src/src/adapters/zod.ts: the Zod adapter.  A Zod schema is an object     *)
(* whose _def (or def) holds its definition; def.type is its kind tag.      *)

\* 9007199254740991 in the source; here the largest number of the model
MAX_SAFE_INTEGER == 2147483647

\* z.toJSONSchema(zodType) of the zod library: it throws on what is not a
\* schema and on custom schemas; what it does with the other kinds the
\* adapter hands it is the environment's choice, held in `fallback`
toJSONSchema(z) ==
  LET def == Or(Get(z, "_def"), Get(z, "def")) IN
  IF ~IsObject(z) \/ ~IsObject(def) \/ Get(def, "type") = Str("custom")
    THEN Threw("Error")
    ELSE fallback

\* Strategies 1 to 4 of findCustomTypeName
findCustomTypeName(z, customTypes) ==
  LET def  == Or(Get(z, "_def"), Get(z, "def"))
      fn   == Get(def, "fn")
      chk  == Get(def, "check")
      own  == Get(z, "__customTypeName")
      hits == { n \in OwnKeys(customTypes) :
                  \E i \in DOMAIN fn[3] : fn[3][i] = n }
  IN
  CASE TypeOf(fn) = "function" /\ fn[2] # "" /\ Truthy(Index(customTypes, Str(fn[2])))
         -> Str(fn[2])
    [] Truthy(own) /\ Truthy(Index(customTypes, own)) -> own
    [] TypeOf(fn) = "function" /\ hits # {}
         -> Str(CHOOSE n \in hits : TRUE)
    [] TypeOf(chk) = "function" /\ chk[2] # "" /\ Truthy(Index(customTypes, Str(chk[2])))
         -> Str(chk[2])
    [] OTHER -> Undefined

\* the loop over def.checks of the string branch
RECURSIVE StringChecks(_, _, _)
StringChecks(r, checks, i) ==
  IF i > Len(checks) THEN r
  ELSE LET check == checks[i]
           kind  == Get(check, "kind")
           value == Get(check, "value")
           r1 == CASE kind = Str("min")    -> [minLength |-> value] @@ r
                   [] kind = Str("max")    -> [maxLength |-> value] @@ r
                   [] kind = Str("length") ->
                        [minLength |-> value, maxLength |-> value] @@ r
                   [] kind = Str("regex")  ->
                        [pattern |-> Get(Get(check, "regex"), "source")] @@ r
                   [] OTHER -> r
       IN  StringChecks(r1, checks, i + 1)

\* the loop over def.checks of the number branch
RECURSIVE NumberChecks(_, _, _)
NumberChecks(r, checks, i) ==
  IF i > Len(checks) THEN r
  ELSE LET check == checks[i]
           kind  == Get(check, "kind")
           value == Get(check, "value")
           r1 == IF kind = Str("int") THEN [type |-> Str("integer")] @@ r ELSE r
           r2 == IF /\ kind = Str("min") /\ value # Undefined
                    /\ value[1] = "number" /\ value[2] > -MAX_SAFE_INTEGER
                   THEN [minimum |-> value] @@ r1 ELSE r1
           r3 == IF /\ kind = Str("max") /\ value # Undefined
                    /\ value[1] = "number" /\ value[2] < MAX_SAFE_INTEGER
                   THEN [maximum |-> value] @@ r2 ELSE r2
       IN  NumberChecks(r3, checks, i + 1)

\* the loop over def.checks of the array branch
RECURSIVE ArrayChecks(_, _, _)
ArrayChecks(r, checks, i) ==
  IF i > Len(checks) THEN r
  ELSE LET check == checks[i]
           kind  == Get(check, "kind")
           value == Get(check, "value")
           r1 == CASE kind = Str("min")    -> [minItems |-> value] @@ r
                   [] kind = Str("max")    -> [maxItems |-> value] @@ r
                   [] kind = Str("length") ->
                        [minItems |-> value, maxItems |-> value] @@ r
                   [] OTHER -> r
       IN  ArrayChecks(r1, checks, i + 1)

\* def.checks as the sequence the loops walk (absent or empty: no iteration)
ChecksOf(def) ==
  LET checks == Get(def, "checks") IN IF IsArray(checks) THEN checks[2] ELSE <<>>

\* "Check if field is required (not optional)"
IsRequiredField(value) ==
  LET fieldDef == Or(Get(value, "_def"), Get(value, "def")) IN
  ~Truthy(fieldDef) \/ Get(fieldDef, "typeName") # Str("ZodOptional")

\* the keys pushed to `required`, in the order of Object.entries(shape)
RECURSIVE RequiredOf(_, _)
RequiredOf(entries, i) ==
  IF i > Len(entries) THEN <<>>
  ELSE (IF IsRequiredField(entries[i][2]) THEN <<Str(entries[i][1])>> ELSE <<>>)
         \o RequiredOf(entries, i + 1)

\* Object.entries / Object.values of an object kept by its entries
EntriesOf(v) == IF v[1] = "entries" THEN v[2] ELSE <<>>
ValuesOf(v) ==
  CASE v[1] = "entries" -> [i \in DOMAIN v[2] |-> v[2][i][2]]
    [] v[1] = "array"   -> v[2]
    [] OTHER -> <<>>

\* the first exception among the elements of a sequence of results, if any
FirstThrow(rs) ==
  IF \E i \in DOMAIN rs : IsThrow(rs[i])
    THEN rs[CHOOSE i \in DOMAIN rs :
              IsThrow(rs[i]) /\ \A j \in 1..(i - 1) : ~IsThrow(rs[j])]
    ELSE Undefined

\* mutant: a wrapper is adapted as a string, whatever it wraps
InnerType_String(def) ==
  Obj([_def |-> Obj([type |-> Str("string"), checks |-> Arr(<<>>)])])

\* defAny.innerType of an optional, default or nullable wrapper
InnerType(def) == Get(def, "innerType")

\* mutant: null comes first
NullableSchema_NullFirst(innerSchema) ==
  Obj([anyOf |-> Arr(<<Obj([type |-> Str("null")]), innerSchema>>)])

\* what the nullable branch returns
NullableSchema(innerSchema) ==
  Obj([anyOf |-> Arr(<<innerSchema, Obj([type |-> Str("null")])>>)])

RECURSIVE processZodType(_, _)
processZodType(z, customTypes) ==
  IF z \in {Undefined, Null} THEN Threw("TypeError")   \* zodType._def of undefined
  ELSE
  LET def  == Or(Get(z, "_def"), Get(z, "def"))
      kind == Get(def, "type")                          \* def?.type
      customTypeName ==
        IF kind = Str("custom") /\ Truthy(customTypes)
          THEN findCustomTypeName(z, customTypes) ELSE Undefined
  IN
  CASE kind = Str("date") ->
         Obj([type |-> Str("string"), __mongoType |-> Str("date")])
    [] kind = Str("custom") /\ Truthy(customTypeName) ->
         Obj([type |-> Str("string"),
              __mongoType |-> Index(customTypes, customTypeName)])
    [] kind = Str("string") ->
         Obj(StringChecks([type |-> Str("string")], ChecksOf(def), 1))
    [] kind = Str("number") ->
         Obj(NumberChecks([type |-> Str("number")], ChecksOf(def), 1))
    [] kind = Str("boolean") -> Obj([type |-> Str("boolean")])
    [] kind = Str("array") ->
         LET items == processZodType(Or(Get(def, "type"), Get(def, "element")),
                                     customTypes)
         IN  IF IsThrow(items) THEN items
             ELSE Obj(ArrayChecks([type |-> Str("array"), items |-> items],
                                  ChecksOf(def), 1))
    [] kind = Str("object") ->
         LET entries == EntriesOf(Or(Get(def, "shape"), EmptyObject))
             props == [i \in DOMAIN entries |->
                         processZodType(entries[i][2], customTypes)]
             properties == Obj([k \in { entries[i][1] : i \in DOMAIN entries } |->
                                  props[CHOOSE i \in DOMAIN entries : entries[i][1] = k]])
             required == RequiredOf(entries, 1)
         IN  IF FirstThrow(props) # Undefined THEN FirstThrow(props)
             ELSE IF Len(required) > 0
               THEN Obj([type |-> Str("object"), properties |-> properties,
                         required |-> Arr(required)])
               ELSE Obj([type |-> Str("object"), properties |-> properties])
    [] kind = Str("enum") ->
         Obj([type |-> Str("string"),
              enum |-> Arr(ValuesOf(Or(Or(Get(def, "values"), Get(def, "entries")),
                                       Arr(<<>>))))])
    [] kind = Str("literal") ->
         Obj([type |-> Str(TypeOf(Get(def, "value"))), const |-> Get(def, "value")])
    [] kind = Str("union") ->
         LET opts == ValuesOf(Or(Get(def, "options"), Arr(<<>>)))
             rs   == [i \in DOMAIN opts |-> processZodType(opts[i], customTypes)]
         IN  IF FirstThrow(rs) # Undefined THEN FirstThrow(rs)
             ELSE Obj([anyOf |-> Arr(rs)])
    [] kind = Str("intersection") ->
         LET rs == << processZodType(Get(def, "left"), customTypes),
                      processZodType(Get(def, "right"), customTypes) >>
         IN  IF FirstThrow(rs) # Undefined THEN FirstThrow(rs)
             ELSE Obj([allOf |-> Arr(rs)])
    [] kind = Str("optional") -> processZodType(InnerType(def), customTypes)
    [] kind = Str("default")  -> processZodType(InnerType(def), customTypes)
    [] kind = Str("nullable") ->
         LET innerSchema == processZodType(InnerType(def), customTypes)
         IN  IF IsThrow(innerSchema) THEN innerSchema
             ELSE NullableSchema(innerSchema)
    [] kind = Str("null") -> Obj([type |-> Str("null")])
    [] OTHER ->
         \* try { return z.toJSONSchema(zodType) } catch { return {} }
         IF IsThrow(toJSONSchema(z)) THEN EmptyObject ELSE toJSONSchema(z)

\* processZodType(zodSchema, options?.customTypes)
zodToCompatibleJsonSchema(z, opts) ==
  processZodType(z, Get(opts, "customTypes"))

\* zodSchema(zodSchema, options).toJsonSchema()
toJsonSchema(z, opts) == zodToCompatibleJsonSchema(z, opts)

\* zodSchema(zodSchema, options).toMongoSchema(): the converter is the one
\* imported from '../index'
toMongoSchema(z, opts) ==
  LET jsonSchema == zodToCompatibleJsonSchema(z, opts) IN
  IF IsThrow(jsonSchema) THEN jsonSchema
  ELSE index_convertJsonSchemaToMongoSchema(jsonSchema)

----------------------------------------------------------------------------
(* The documents handed to the converter *)

MaxLen   == 2     \* longest type list, allOf/anyOf/oneOf list and Zod shape
MaxDepth == 2     \* deepest nesting of generated documents

\* all sequences over S of length at most n
RECURSIVE SeqsUpTo(_, _)
SeqsUpTo(S, n) ==
  IF n = 0 THEN { <<>> }
  ELSE LET shorter == SeqsUpTo(S, n - 1) IN
       shorter \cup { Append(q, x) : q \in { r \in shorter : Len(r) = n - 1 }, x \in S }

TypeNames ==
  { "string", "number", "integer", "boolean", "array", "object", "null",
    "decimal", "constructor" }

TypeValues ==
  { Str(t) : t \in TypeNames }
    \cup { Arr(q) : q \in SeqsUpTo({ Str("string"), Str("null"), Str("decimal") }, MaxLen) }

HintValues ==
  { Str("date"), Str("objectId"), Str("decimal"), Str(""),
    Num(1), Num(0), Bool(TRUE), Null, EmptyObject }

\* keyword bundles a node may carry besides type, hint and bsonType
DeniedPart ==
  [title |-> Str("T"), description |-> Null, examples |-> Arr(<<Num(1)>>),
   default |-> EmptyObject, format |-> Str("email"),
   additionalProperties |-> Bool(FALSE)] @@ ("$schema" :> Str("draft-07"))

ConstraintPart ==
  [minimum |-> Num(0), maximum |-> Num(9), pattern |-> Str("^a"),
   enum |-> Arr(<<Str("a"), Num(1)>>), const |-> Str("a"),
   required |-> Arr(<<Str("b"), Str("a")>>), minLength |-> Num(1),
   maxLength |-> Num(5), minItems |-> Num(0), maxItems |-> Num(3),
   uniqueItems |-> Bool(TRUE)]

ExtraParts == { <<>>, DeniedPart, ConstraintPart, [format |-> Num(0), minimum |-> Num(2)] }

\* nodes without nested schemas
FlatNodes ==
  { Obj(t @@ h @@ b @@ x) :
      t \in { <<>> } \cup { [type |-> v] : v \in TypeValues },
      h \in { <<>> } \cup { [__mongoType |-> v] : v \in HintValues },
      b \in { <<>>, [bsonType |-> Str("long")] },
      x \in ExtraParts }

\* values found where a nested schema is expected; not all of them are objects
ChildValues ==
  { Obj([type |-> Str("string"), title |-> Str("T")]),
    Obj([type |-> Str("string"), __mongoType |-> Str("date")]),
    Obj([type |-> Str("integer"), minimum |-> Num(0), default |-> Num(1)]),
    Obj([bsonType |-> Str("long"), format |-> Str("x")]),
    EmptyObject,
    Arr(<<Obj([type |-> Str("string"), format |-> Str("x")])>>),
    Bool(TRUE), Null, Num(5) }

\* c at the end of a list of n elements, after alternating fillers
ListEnding(c, n) ==
  Arr([i \in 1..n |-> IF i = n THEN c
                      ELSE IF i % 2 = 1 THEN Obj([type |-> Str("number")])
                      ELSE Bool(FALSE)])

\* fields named like the keywords the converter removes or consumes
KeywordNamedFields(c) ==
  Obj([type |-> c, __mongoType |-> c, title |-> c,
       description |-> Obj([type |-> Str("string"), description |-> Str("D")]),
       examples |-> EmptyObject, default |-> c,
       format |-> Obj([type |-> Str("string"), format |-> Str("email")]),
       additionalProperties |-> Obj([type |-> Str("boolean")])])

\* the nodes that nest c one level down
Nesting(c) ==
  { Obj([type |-> Str("array"), items |-> c]),
    Obj([not |-> c, description |-> Str("D")]),
    Obj([type |-> Str("object"),
         properties |-> Obj([b |-> c, a |-> Obj([type |-> Str("null")]),
                             title |-> EmptyObject]),
         required |-> Arr(<<Str("b")>>)]) }
    \cup { Obj(k :> ListEnding(c, MaxLen)) : k \in {"allOf", "anyOf", "oneOf"} }
    \cup { Obj([properties |-> Str("x"), items |-> Num(1), allOf |-> c,
                anyOf |-> Arr(<<>>)]) }
    \cup { Obj([type |-> Str("object"), title |-> Str("T"),
                properties |-> KeywordNamedFields(c)]) }

RECURSIVE NestedNodes(_)
NestedNodes(d) ==
  IF d = 0 THEN ChildValues
  ELSE UNION { Nesting(c) : c \in NestedNodes(d - 1) }

InputSchemas ==
  FlatNodes \cup UNION { NestedNodes(d) : d \in 1..MaxDepth }

----------------------------------------------------------------------------
(* The Zod schemas handed to the adapter, shaped as zod 4 builds them: the   *)
(* instance holds its definition in _def, def.type is the kind tag.  An      *)
(* instance that stands for itself in identity comparisons carries the       *)
(* token of its allocation in "#ref".                                       *)

Z(def) == Obj([_def |-> Obj(def)])

zString  == Z([type |-> Str("string"), checks |-> Arr(<<>>)])
zNumber  == Z([type |-> Str("number"), checks |-> Arr(<<>>)])
zBoolean == Z([type |-> Str("boolean")])
zDate    == Z([type |-> Str("date")])
zNull    == Z([type |-> Str("null")])
zAny     == Z([type |-> Str("any")])

\* z.custom(fn), allocated as object number ref
zCustom(fn, ref) ==
  Obj([_def |-> Obj([type |-> Str("custom"), check |-> Str("custom"), fn |-> fn])]
      @@ ("#ref" :> Num(ref)))

\* value => ObjectId.isValid(value), twice, and a named function
isValidArrow  == Fn("", <<"value", "=>", "ObjectId", "isValid", "value">>)
zObjectId     == zCustom(isValidArrow, 1)
zObjectIdTwin == zCustom(isValidArrow, 2)
zNamedCustom  == zCustom(Fn("zodObjectId", <<"function", "zodObjectId", "value">>), 3)
\* a validation function named like a member of Object.prototype
zValueOfCustom == zCustom(Fn("valueOf", <<"function", "valueOf", "value">>), 4)

\* checks as the adapter reads them (kind, value) and as zod 4 builds them
zStringMin == Z([type |-> Str("string"),
                 checks |-> Arr(<<Obj([kind |-> Str("min"), value |-> Num(1)]),
                                  Obj([kind |-> Str("regex"),
                                       regex |-> Obj([source |-> Str("^a")])])>>)])
zNumberIntKind == Z([type |-> Str("number"),
                     checks |-> Arr(<<Obj([kind |-> Str("int")]),
                                      Obj([kind |-> Str("min"), value |-> Num(0)])>>)])
zNumberInt == Z([type |-> Str("number"),
                 checks |-> Arr(<<Obj([isInt |-> Bool(TRUE), format |-> Str("safeint"),
                                       minValue |-> Num(-MAX_SAFE_INTEGER),
                                       maxValue |-> Num(MAX_SAFE_INTEGER)])>>)])

zLiteral == Z([type |-> Str("literal"), values |-> Arr(<<Str("active")>>)])
\* a literal node that holds its value in def.value
zLiteralValue == Z([type |-> Str("literal"), value |-> Str("active")])
zEnum    == Z([type |-> Str("enum"),
               entries |-> OObj(<< <<"B", Str("b")>>, <<"A", Str("a")>> >>)])

zOptional(x)   == Z([type |-> Str("optional"), innerType |-> x])
zDefault(x, v) == Z([type |-> Str("default"), innerType |-> x, defaultValue |-> v])
zNullable(x)   == Z([type |-> Str("nullable"), innerType |-> x])
zArray(x)      == Z([type |-> Str("array"), element |-> x])
zUnion(xs)     == Z([type |-> Str("union"), options |-> Arr(xs)])
zIntersection(l, r) == Z([type |-> Str("intersection"), left |-> l, right |-> r])
zObject(entries)    == Z([type |-> Str("object"), shape |-> OObj(entries)])

\* an optional wrapper as zod 3 built it: tagged by typeName, no def.type
z3Optional(x) == Z([typeName |-> Str("ZodOptional"), innerType |-> x])

ZodLeaves ==
  { zString, zNumber, zBoolean, zDate, zNull, zAny, zObjectId, zObjectIdTwin,
    zNamedCustom, zStringMin, zNumberIntKind, zNumberInt, zLiteral, zEnum,
    zLiteralValue, zValueOfCustom }

ZodWrapped(x) ==
  { zOptional(x), zDefault(x, Str("v")), zDefault(x, Num(1)), zNullable(x), zArray(x),
    zUnion(<<x, zString>>), zIntersection(zString, x), z3Optional(x) }

FieldSchemas ==
  { zString, zOptional(zString), zDate, zObjectId, zNullable(zOptional(zNumber)),
    z3Optional(zString), zDefault(zBoolean, Bool(TRUE)) }

FieldNames == <<"b", "a", "d", "c">>      \* declaration order is not key order

ZodObjects ==
  { zObject([i \in DOMAIN q |-> <<FieldNames[i], q[i]>>]) : q \in SeqsUpTo(FieldSchemas, MaxLen) }

ZodInputs ==
  ZodLeaves \cup UNION { ZodWrapped(x) : x \in ZodLeaves } \cup ZodObjects
    \cup { zArray(o) : o \in { p \in ZodObjects : Len(Get(Get(p, "_def"), "shape")[2]) = 1 } }
    \cup { zObject(<< <<"n", zObject(<< <<"x", zOptional(zDate)>>, <<"y", zObjectId>> >>)>>,
                      <<"m", zNullable(zString)>> >>) }

\* a MongoTypeRegistry holding the given entries
Registry(types) == <<"registry", types>>

OptionValues ==
  { Undefined,
    Obj([customTypes |-> Obj([zodObjectId |-> Str("objectId")])]),
    Obj([customTypes |-> Obj([ObjectId |-> Str("objectId")])]),
    Obj([mongoTypes |-> Registry(<< <<"objectId",
           Obj([schema |-> zObjectId, bsonType |-> Str("objectId")])>> >>)]),
    Obj([mongoTypes |-> Registry(<<>>)]) }

Fallbacks ==
  { Threw("Error"), EmptyObject, Obj([type |-> Str("string"), format |-> Str("x")]) }

----------------------------------------------------------------------------
(* src/src/registry/MongoTypeRegistry.ts: the methods, on the entries of    *)
(* _types                                                                   *)

\* mutant: set adds an entry whether or not the name is there
register_Append(types, name, typeInfo) == Append(types, <<name, typeInfo>>)

\* mutant: a name registered again moves to the end
register_MoveToEnd(types, name, typeInfo) ==
  Append(SelectSeq(types, LAMBDA t : t[1] # name), <<name, typeInfo>>)

\* this._types.set(name, typeInfo): a present key keeps its place
register(types, name, typeInfo) ==
  IF \E i \in DOMAIN types : types[i][1] = name
    THEN [i \in DOMAIN types |->
            IF types[i][1] = name THEN <<name, typeInfo>> ELSE types[i]]
    ELSE Append(types, <<name, typeInfo>>)

\* this._types.get(name)
get(types, name) ==
  IF \E i \in DOMAIN types : types[i][1] = name
    THEN types[CHOOSE i \in DOMAIN types : types[i][1] = name][2]
    ELSE Undefined

\* Array.from(this._types.entries())
entries(types) ==
  Arr([i \in DOMAIN types |-> Arr(<<Str(types[i][1]), types[i][2]>>)])

\* mutant: true as soon as anything is registered
has_Any(types, name) == Bool(types # <<>>)

\* this._types.has(name)
has(types, name) == Bool(\E i \in DOMAIN types : types[i][1] = name)

\* this._types.size
size(types) == Num(Len(types))

\* mutant: nothing is removed
clear_Nothing(types) == types

\* this._types.clear()
clear(types) == <<>>

----------------------------------------------------------------------------
(* The calls a client makes *)

Init ==
  /\ result = Undefined
  /\ pc = "ready"
  /\ _types = <<>> /\ args = <<>> /\ calls = <<>>
  /\ \/ /\ schema \in InputSchemas
        /\ zodType = Undefined /\ options = Undefined /\ fallback = Threw("Error")
     \/ /\ schema = Undefined
        /\ zodType \in ZodInputs /\ options \in OptionValues /\ fallback \in Fallbacks

\* convertJsonSchemaToMongoSchema(schema), imported from src/lib
Convert ==
  /\ pc = "ready" /\ schema # Undefined
  /\ result' = convertJsonSchemaToMongoSchema(schema)
  /\ pc' = "lib.convertJsonSchemaToMongoSchema"
  /\ UNCHANGED <<schema, zodType, options, fallback, _types, args, calls>>

\* convertJsonSchemaToMongoSchema(schema), imported from src/index
IndexConvert ==
  /\ pc = "ready" /\ schema # Undefined
  /\ result' = index_convertJsonSchemaToMongoSchema(schema)
  /\ pc' = "index.convertJsonSchemaToMongoSchema"
  /\ UNCHANGED <<schema, zodType, options, fallback, _types, args, calls>>

\* zodSchema(zodType, options).toJsonSchema()
ToJsonSchema ==
  /\ pc = "ready" /\ schema = Undefined
  /\ result' = toJsonSchema(zodType, options)
  /\ pc' = "toJsonSchema"
  /\ UNCHANGED <<schema, zodType, options, fallback, _types, args, calls>>

\* zodSchema(zodType, options).toMongoSchema()
ToMongoSchema ==
  /\ pc = "ready" /\ schema = Undefined
  /\ result' = toMongoSchema(zodType, options)
  /\ pc' = "toMongoSchema"
  /\ UNCHANGED <<schema, zodType, options, fallback, _types, args, calls>>

\* the client hands the adapter's output to a converter
PassOn ==
  /\ pc = "toJsonSchema" /\ IsObject(result)
  /\ schema' = result
  /\ result' = Undefined
  /\ pc' = "ready"
  /\ UNCHANGED <<zodType, options, fallback, _types, args, calls>>

Next == Convert \/ IndexConvert \/ ToJsonSchema \/ ToMongoSchema \/ PassOn

Spec == Init /\ [][Next]_vars

----------------------------------------------------------------------------
(* The calls a client makes on one MongoTypeRegistry *)

MaxCalls == 3     \* register and clear calls in one history

RegistryNames == { "objectId", "strictDate" }

\* two validators with the same validation function, and one never registered
Validators == { zObjectId, zObjectIdTwin, zNamedCustom }

TypeInfos ==
  { Obj([schema |-> v, bsonType |-> Str(t)]) :
      v \in { zObjectId, zObjectIdTwin }, t \in { "objectId", "date" } }

\* new MongoTypeRegistry()
RegistryInit ==
  /\ _types = <<>> /\ args = <<>> /\ calls = <<>>
  /\ result = Undefined
  /\ pc = "ready"
  /\ schema = Undefined /\ zodType = Undefined /\ options = Undefined
  /\ fallback = Threw("Error")

\* registry.register(name, typeInfo), which returns the registry
Register ==
  \E name \in RegistryNames, typeInfo \in TypeInfos :
    /\ Len(calls) < MaxCalls
    /\ _types' = register(_types, name, typeInfo)
    /\ args' = <<Str(name), typeInfo>>
    /\ calls' = Append(calls, <<"register", name, typeInfo>>)
    /\ result' = Registry(_types')
    /\ pc' = "register"
    /\ UNCHANGED <<schema, zodType, options, fallback>>

\* registry.clear()
Clear ==
  /\ Len(calls) < MaxCalls
  /\ _types' = clear(_types)
  /\ args' = <<>>
  /\ calls' = Append(calls, <<"clear">>)
  /\ result' = Undefined
  /\ pc' = "clear"
  /\ UNCHANGED <<schema, zodType, options, fallback>>

\* registry.get(name)
RegistryGet ==
  \E name \in RegistryNames :
    /\ result' = get(_types, name)
    /\ args' = <<Str(name)>>
    /\ pc' = "get"
    /\ UNCHANGED <<schema, zodType, options, fallback, _types, calls>>

\* registry.has(name)
RegistryHas ==
  \E name \in RegistryNames :
    /\ result' = has(_types, name)
    /\ args' = <<Str(name)>>
    /\ pc' = "has"
    /\ UNCHANGED <<schema, zodType, options, fallback, _types, calls>>

\* registry.size()
RegistrySize ==
  /\ result' = size(_types)
  /\ args' = <<>>
  /\ pc' = "size"
  /\ UNCHANGED <<schema, zodType, options, fallback, _types, calls>>

\* registry.entries()
RegistryEntries ==
  /\ result' = entries(_types)
  /\ args' = <<>>
  /\ pc' = "entries"
  /\ UNCHANGED <<schema, zodType, options, fallback, _types, calls>>

\* registry.findByValidator(validator)
FindByValidator ==
  \E validator \in Validators :
    /\ result' = findByValidator(_types, validator)
    /\ args' = <<validator>>
    /\ pc' = "findByValidator"
    /\ UNCHANGED <<schema, zodType, options, fallback, _types, calls>>

RegistryNext ==
  \/ Register \/ Clear \/ RegistryGet \/ RegistryHas \/ RegistrySize
  \/ RegistryEntries \/ FindByValidator

RegistrySpec == RegistryInit /\ [][RegistryNext]_vars

----------------------------------------------------------------------------
(* What the claims speak about *)

LibDone   == pc = "lib.convertJsonSchemaToMongoSchema"
IndexDone == pc = "index.convertJsonSchemaToMongoSchema"

\* The schema nodes of input i a converter reaches, each with the node of
\* output o at the same place: the root, and the nodes nested through
\* properties values, items, allOf/anyOf/oneOf elements and not
RECURSIVE NodePairs(_, _)
NodePairs(i, o) ==
  LET ip == Get(i, "properties")
      op == Get(o, "properties")
      Under(k) == IF IsObject(Get(i, k)) /\ IsObject(Get(o, k))
                    THEN NodePairs(Get(i, k), Get(o, k)) ELSE {}
      Listed(k) ==
        LET il == Get(i, k)
            ol == Get(o, k)
        IN  IF IsArray(il) /\ IsArray(ol)
              THEN UNION { NodePairs(il[2][j], ol[2][j]) :
                             j \in { n \in DOMAIN il[2] \cap DOMAIN ol[2] :
                                       IsObject(il[2][n]) /\ IsObject(ol[2][n]) } }
              ELSE {}
  IN  { <<i, o>> }
        \cup (IF IsObject(ip) /\ IsObject(op)
                THEN UNION { NodePairs(Get(ip, k), Get(op, k)) :
                               k \in { n \in OwnKeys(ip) \cap OwnKeys(op) :
                                         IsObject(Get(ip, n)) /\ IsObject(Get(op, n)) } }
                ELSE {})
        \cup Under("items") \cup Under("not")
        \cup Listed("allOf") \cup Listed("anyOf") \cup Listed("oneOf")

DenylistedKeywords ==
  { "title", "description", "examples", "$schema", "default", "format",
    "additionalProperties" }

StructuralKeys == { "properties", "items", "allOf", "anyOf", "oneOf", "not" }

\* the primitive-type table of the specification
TableTag(t) ==
  CASE t = "string"  -> "string"
    [] t = "number"  -> "double"
    [] t = "integer" -> "int"
    [] t = "boolean" -> "bool"
    [] t = "array"   -> "array"
    [] t = "object"  -> "object"
    [] t = "null"    -> "null"
    [] OTHER -> t

----------------------------------------------------------------------------
(* C1: for every input node without a __mongoType hint whose type is a      *)
(* string t, the converter sets bsonType to the table value of t, and to t  *)
(* itself for a name outside the table; a list of types gives the list of   *)
(* the mapped elements, same length and order.                              *)
(* The code looks t up in an object literal, so a name every object         *)
(* inherits (constructor, toString, ...) is found on the prototype and the  *)
(* inherited function, not t, becomes the bsonType.                         *)
C1_TypeTable ==
  LibDone =>
    \A p \in NodePairs(schema, result) :
      LET type == Get(p[1], "type") IN
      ~Has(p[1], "__mongoType") =>
        /\ IsString(type) => Get(p[2], "bsonType") = Str(TableTag(type[2]))
        /\ IsArray(type) =>
             Get(p[2], "bsonType") =
               Arr([n \in DOMAIN type[2] |-> Str(TableTag(type[2][n][2]))])

----------------------------------------------------------------------------
(* C2, as stated: for every node that carries both a string __mongoType     *)
(* hint and a JSON type, the output bsonType is the tag resolved from the   *)
(* hint alone and does not depend on type: inputs that differ only in type  *)
(* convert to the same output.                                              *)
(* The hint is tested for truthiness, so the empty string is no hint, and   *)
(* the copy loop puts a bsonType key of the node itself over the tag.       *)
C2_HintAlone_Original ==
  LibDone =>
    \A p \in NodePairs(schema, result) :
      LET hint == Get(p[1], "__mongoType") IN
      (IsString(hint) /\ Has(p[1], "type")) =>
        /\ Get(p[2], "bsonType") = hint
        /\ \A t \in TypeValues :
             convertJsonSchemaToMongoSchema(Obj([type |-> t] @@ p[1][2])) = p[2]

(* C2, amended: for every node that carries both a non-empty string         *)
(* __mongoType hint and a JSON type, inputs that differ only in type        *)
(* convert to the same output, and the output bsonType is the hint unless   *)
(* the node has a bsonType key of its own, which is then the output         *)
(* bsonType.                                                                *)
C2_HintAlone ==
  LibDone =>
    \A p \in NodePairs(schema, result) :
      LET hint == Get(p[1], "__mongoType") IN
      (IsString(hint) /\ hint[2] # "" /\ Has(p[1], "type")) =>
        /\ Get(p[2], "bsonType") =
             (IF Has(p[1], "bsonType") THEN Get(p[1], "bsonType") ELSE hint)
        /\ \A t \in TypeValues :
             convertJsonSchemaToMongoSchema(Obj([type |-> t] @@ p[1][2])) = p[2]

\* a node with hint 'date' and type 'number' was converted to bsonType 'date'
C2_Witness ==
  /\ LibDone
  /\ Get(schema, "__mongoType") = Str("date")
  /\ Get(schema, "type") = Str("number")
  /\ ~Has(schema, "bsonType")
  /\ Get(result, "bsonType") = Str("date")

----------------------------------------------------------------------------
(* C3: denylist completeness.  For every input and every schema node of it  *)
(* the converter reaches, the corresponding output node has none of the     *)
(* keys title, description, examples, $schema, default, format,             *)
(* additionalProperties, whatever their values were.                        *)
C3_Denylist ==
  (LibDone \/ IndexDone) =>
    \A p \in NodePairs(schema, result) : OwnKeys(p[2]) \cap DenylistedKeywords = {}

\* a node with all seven keywords, and one with a keyword two levels down,
\* were converted by the converter of lib.ts
C3_Witness ==
  /\ LibDone
  /\ \/ DenylistedKeywords \subseteq OwnKeys(schema)
     \/ \E p \in NodePairs(schema, result) :
          /\ p[1] # schema
          /\ OwnKeys(p[1]) \cap DenylistedKeywords # {}
          /\ \E q \in NodePairs(schema, result) :
               q[1] # schema /\ p \in NodePairs(q[1], q[2]) /\ p # q

----------------------------------------------------------------------------
(* C4: the type key and the __mongoType hint key are consumed by the        *)
(* converter: no output node reached through properties, items,             *)
(* allOf/anyOf/oneOf or not, nor the root, carries a type key or a          *)
(* __mongoType key.  This is stated of both definitions of                  *)
(* convertJsonSchemaToMongoSchema; the one in index.ts, which the adapter   *)
(* imports, copies __mongoType to its output.                               *)
C4_TypeAndHintConsumed ==
  (LibDone \/ IndexDone) =>
    \A p \in NodePairs(schema, result) :
      ~Has(p[2], "type") /\ ~Has(p[2], "__mongoType")

----------------------------------------------------------------------------
\* def.type of a Zod schema
KindOf(z) == Get(Or(Get(z, "_def"), Get(z, "def")), "type")

\* the entries of the registry passed as options.mongoTypes, none without one
RegistryTypes(opts) ==
  LET mongoTypes == Get(opts, "mongoTypes") IN
  IF mongoTypes[1] = "registry" THEN mongoTypes[2] ELSE <<>>

(* C5: the adapter resolves a custom validator node by reference identity   *)
(* against the supplied registry: the adapter's output for a custom node c  *)
(* is {type: 'string', __mongoType: t} exactly when the registry holds an   *)
(* entry whose stored validator is the identical reference c, with t that   *)
(* entry's storage type; a custom node that is a different reference gets   *)
(* no hint, whatever the name or the text of its validation function.       *)
(* The adapter reads options.customTypes only and matches by function name  *)
(* and text: a registered validator adapts to {} and a validator named like *)
(* a customTypes key gets a hint with no registry at all.                   *)
C5_RegistryIdentity ==
  (pc = "toJsonSchema" /\ KindOf(zodType) = Str("custom")) =>
    LET types == RegistryTypes(options)
        name  == findByValidator(types, zodType)
    IN  IF name # Undefined
          THEN \E i \in DOMAIN types :
                 /\ Str(types[i][1]) = name
                 /\ result = Obj([type |-> Str("string"),
                                  __mongoType |-> Get(types[i][2], "bsonType")])
          ELSE ~Has(result, "__mongoType")

----------------------------------------------------------------------------
\* an optional wrapper: z.optional as zod 4 tags it, or as zod 3 did
IsOptionalWrapper(z) ==
  \/ KindOf(z) = Str("optional")
  \/ Get(Or(Get(z, "_def"), Get(z, "def")), "typeName") = Str("ZodOptional")

\* the declared field names whose schema is not an optional wrapper, in
\* declaration order
RECURSIVE NonOptionalFields(_, _)
NonOptionalFields(fields, i) ==
  IF i > Len(fields) THEN <<>>
  ELSE (IF IsOptionalWrapper(fields[i][2]) THEN <<>> ELSE <<Str(fields[i][1])>>)
         \o NonOptionalFields(fields, i + 1)

\* the object nodes of a Zod schema with the adapter's output for each: the
\* root and the object fields of an object
ObjectNodes(z, out) ==
  IF KindOf(z) # Str("object") \/ ~IsObject(out) THEN {}
  ELSE LET fields == EntriesOf(Get(Get(z, "_def"), "shape")) IN
       { <<z, out>> }
         \cup { <<fields[i][2], Get(Get(out, "properties"), fields[i][1])>> :
                  i \in { n \in DOMAIN fields : KindOf(fields[n][2]) = Str("object") } }

(* C6: for every object node, the adapter's required is exactly the list of *)
(* declared field names whose schema is not an optional wrapper, in field   *)
(* declaration order, and the required key is absent, not an empty list,    *)
(* when every field is optional or the object has no fields.                *)
(* The adapter tells an optional field by typeName 'ZodOptional', which the *)
(* schemas it dispatches on by def.type do not carry, so a field declared   *)
(* with .optional() is listed in required.                                  *)
C6_Required ==
  pc = "toJsonSchema" =>
    \A n \in ObjectNodes(zodType, result) :
      LET expected == NonOptionalFields(EntriesOf(Get(Get(n[1], "_def"), "shape")), 1)
      IN  IF expected = <<>>
            THEN ~Has(n[2], "required")
            ELSE Get(n[2], "required") = Arr(expected)

----------------------------------------------------------------------------
\* the native node of each primitive source kind
ExpectedNativeNode(kind) ==
  CASE kind = "string"  -> Obj([bsonType |-> Str("string")])
    [] kind = "number"  -> Obj([bsonType |-> Str("double")])
    [] kind = "boolean" -> Obj([bsonType |-> Str("bool")])
    [] kind = "null"    -> Obj([bsonType |-> Str("null")])
    [] kind = "date"    -> Obj([bsonType |-> Str("date")])

(* C7: for every primitive source kind without constraints, converting the  *)
(* adapter's output gives exactly one key: string -> {bsonType: 'string'},  *)
(* number -> {bsonType: 'double'}, boolean -> {bsonType: 'bool'}, null ->   *)
(* {bsonType: 'null'}, date -> {bsonType: 'date'}; the date adapts to       *)
(* {type: 'string', __mongoType: 'date'} first.  Converting is              *)
(* toMongoSchema() of the adapter, or the converter of lib.ts applied to    *)
(* toJsonSchema().                                                          *)
(* toMongoSchema() converts with the definition of index.ts, which does not *)
(* read the hint (C4): the date comes out as {bsonType: 'string',           *)
(* __mongoType: 'date'}.                                                    *)
C7_Primitives ==
  (/\ zodType \in { zString, zNumber, zBoolean, zNull, zDate }
   /\ \/ pc = "toMongoSchema"
      \/ LibDone /\ schema = toJsonSchema(zodType, options)) =>
    /\ zodType = zDate =>
         toJsonSchema(zodType, options) =
           Obj([type |-> Str("string"), __mongoType |-> Str("date")])
    /\ result = ExpectedNativeNode(KindOf(zodType)[2])

----------------------------------------------------------------------------
\* an exception anywhere inside a returned value
RECURSIVE ContainsThrow(_)
ContainsThrow(v) ==
  CASE v[1] = "throw"  -> TRUE
    [] v[1] = "object" -> \E k \in DOMAIN v[2] : ContainsThrow(v[2][k])
    [] v[1] = "array"  -> \E i \in DOMAIN v[2] : ContainsThrow(v[2][i])
    [] OTHER -> FALSE

(* C11: convertJsonSchemaToMongoSchema is total on JSON-Schema-shaped       *)
(* input: for every finite schema tree it returns a node and raises no      *)
(* error, at the root or in any nested conversion, whatever keys and type   *)
(* names the tree contains (and whatever sits where a nested schema is      *)
(* expected), and convert({}) = {}.                                         *)
C11_Total ==
  (LibDone \/ IndexDone) =>
    /\ result[1] = "object"
    /\ ~ContainsThrow(result)
    /\ schema = EmptyObject => result = EmptyObject

\* a tree two levels deep with null where a schema is expected, and a type
\* name outside the table, were converted
C11_Witness ==
  /\ LibDone
  /\ result[1] = "object"
  /\ \/ /\ IsObject(Get(schema, "not"))
        /\ Get(Get(schema, "not"), "items") = Null
        /\ Get(Get(result, "not"), "items") = Null
     \/ /\ Get(schema, "type") = Str("decimal")
        /\ Get(result, "bsonType") = Str("decimal")

----------------------------------------------------------------------------
\* the kinds processZodType has a branch for
RecognizedKinds ==
  { Str(k) : k \in { "date", "custom", "string", "number", "boolean", "array",
                     "object", "enum", "literal", "union", "intersection",
                     "optional", "default", "nullable", "null" } }

\* a custom validator the registry does not hold (or with no registry), or a
\* node of unrecognized kind whose fallback conversion fails
Unrepresentable(z, opts) ==
  \/ /\ KindOf(z) = Str("custom")
     /\ findByValidator(RegistryTypes(opts), z) = Undefined
  \/ /\ KindOf(z) \notin RecognizedKinds
     /\ IsThrow(toJSONSchema(z))

\* a sequence without its i-th element
Without(q, i) == [k \in 1..(Len(q) - 1) |-> IF k < i THEN q[k] ELSE q[k + 1]]

(* C12: degradation is local and never an error: when an object contains a  *)
(* field that is a custom validator with no registry match (or no registry) *)
(* or a node of unrecognized kind whose fallback conversion fails, the      *)
(* adapter does not throw, that field's node is the empty schema {}, and    *)
(* every other field of the object is adapted exactly as it would be if the *)
(* unrepresentable field were not there.                                    *)
(* The adapter matches custom validators by function name and text against  *)
(* options.customTypes (C5), so a validator that is in no registry can      *)
(* still get a hint instead of {}.                                          *)
C12_LocalDegradation ==
  (pc = "toJsonSchema" /\ KindOf(zodType) = Str("object")) =>
    LET fields == EntriesOf(Get(Get(zodType, "_def"), "shape")) IN
    \A i \in DOMAIN fields :
      Unrepresentable(fields[i][2], options) =>
        /\ ~IsThrow(result)
        /\ Get(Get(result, "properties"), fields[i][1]) = EmptyObject
        /\ \A j \in DOMAIN fields \ {i} :
             Get(Get(result, "properties"), fields[j][1]) =
               Get(Get(zodToCompatibleJsonSchema(zObject(Without(fields, i)), options),
                       "properties"),
                   fields[j][1])

----------------------------------------------------------------------------
(* The registry claims are stated against the history of calls *)

\* the register calls made since the last clear, oldest first
SinceClear(history) ==
  LET cleared == { i \in DOMAIN history : history[i][1] = "clear" }
      last    == IF cleared = {} THEN 0
                 ELSE CHOOSE i \in cleared : \A j \in cleared : j <= i
  IN  SubSeq(history, last + 1, Len(history))

\* the names registered since the last clear
RegisteredNames(history) ==
  { SinceClear(history)[i][2] : i \in DOMAIN SinceClear(history) }

\* what the last register of name since the last clear stored
CurrentEntry(history, name) ==
  LET q    == SinceClear(history)
      hits == { i \in DOMAIN q : q[i][2] = name }
  IN  q[CHOOSE i \in hits : \A j \in hits : j <= i][3]

\* the registered names by their first registration since the last clear
RECURSIVE FirstRegistrations(_, _)
FirstRegistrations(q, i) ==
  IF i > Len(q) THEN <<>>
  ELSE (IF \E j \in 1..(i - 1) : q[j][2] = q[i][2] THEN <<>> ELSE <<q[i][2]>>)
         \o FirstRegistrations(q, i + 1)

InsertionOrder(history) == FirstRegistrations(SinceClear(history), 1)

(* C13: register is last-write-wins and never fails: after register(n, e1)  *)
(* followed by register(n, e2), with any calls on other names in between,   *)
(* no error is raised, get(n) returns e2, size() counts n once, and         *)
(* findByValidator(e1's validator) no longer returns n unless e2 stores     *)
(* that same validator reference.                                           *)
C13_LastWriteWins ==
  /\ pc = "register" => result = Registry(_types)
  /\ \A n \in RegisteredNames(calls) :
       LET q  == SinceClear(calls)
           e2 == CurrentEntry(calls, n)
       IN  /\ get(_types, n) = e2
           /\ Cardinality({ i \in DOMAIN _types : _types[i][1] = n }) = 1
           /\ size(_types) = Num(Cardinality(RegisteredNames(calls)))
           /\ \A i \in DOMAIN q :
                (q[i][2] = n /\ Get(q[i][3], "schema") # Get(e2, "schema")) =>
                  findByValidator(_types, Get(q[i][3], "schema")) # Str(n)

\* objectId was registered with one validator, then strictDate, then objectId
\* again with the other validator
C13_Witness ==
  /\ pc = "register"
  /\ Len(calls) = 3
  /\ calls[1][2] = "objectId" /\ calls[2][2] = "strictDate" /\ calls[3][2] = "objectId"
  /\ Get(calls[1][3], "schema") = zObjectId
  /\ Get(calls[3][3], "schema") = zObjectIdTwin
  /\ get(_types, "objectId") = calls[3][3]
  /\ size(_types) = Num(2)

----------------------------------------------------------------------------
(* C14: in every reachable registry state, findByValidator(v) returns the   *)
(* first name in insertion order whose stored validator is the identical    *)
(* reference v, and not-found when no entry stores that exact reference;    *)
(* two distinct validator references are never conflated, even when their   *)
(* validation logic is structurally identical.                              *)
C14_FindByIdentity ==
  /\ \A v \in Validators :
       LET order == InsertionOrder(calls)
           hits  == { i \in DOMAIN order :
                        Get(CurrentEntry(calls, order[i]), "schema") = v }
       IN  findByValidator(_types, v) =
             IF hits = {} THEN Undefined
             ELSE Str(order[CHOOSE i \in hits : \A j \in hits : i <= j])
  /\ pc = "findByValidator" => result = findByValidator(_types, args[1])

\* both names store the same validator, strictDate first; its twin with the
\* same validation function is asked for and not found
C14_Witness ==
  /\ pc = "findByValidator"
  /\ Len(_types) = 2
  /\ _types[1][1] = "strictDate"
  /\ Get(_types[1][2], "schema") = zObjectId
  /\ Get(_types[2][2], "schema") = zObjectId
  /\ findByValidator(_types, zObjectId) = Str("strictDate")
  /\ args = <<zObjectIdTwin>>
  /\ Get(zObjectIdTwin, "_def") = Get(zObjectId, "_def")
  /\ result = Undefined

----------------------------------------------------------------------------
(* C15: after clear(), from any registry state, size() = 0, entries() is    *)
(* empty, has(n) is false and get(n) is not-found for every name n, and     *)
(* findByValidator(v) is not-found for every v; a register issued after a   *)
(* clear succeeds and the registry then holds exactly the entries           *)
(* registered since that clear.                                             *)
C15_Clear ==
  /\ (calls # <<>> /\ calls[Len(calls)][1] = "clear") =>
       /\ size(_types) = Num(0)
       /\ entries(_types) = Arr(<<>>)
       /\ \A n \in RegistryNames :
            has(_types, n) = Bool(FALSE) /\ get(_types, n) = Undefined
       /\ \A v \in Validators : findByValidator(_types, v) = Undefined
  /\ { _types[i] : i \in DOMAIN _types } =
       { <<n, CurrentEntry(calls, n)>> : n \in RegisteredNames(calls) }
  /\ Len(_types) = Cardinality(RegisteredNames(calls))

\* a register, a clear, then a register of another name: only that one is held
C15_Witness ==
  /\ Len(calls) = 3
  /\ calls[1][1] = "register" /\ calls[1][2] = "objectId"
  /\ calls[2][1] = "clear"
  /\ calls[3][1] = "register" /\ calls[3][2] = "strictDate"
  /\ _types = << <<"strictDate", calls[3][3]>> >>
  /\ pc = "register"

----------------------------------------------------------------------------
(* C16: after any finite sequence of register and clear calls the read      *)
(* operations agree with each other: size() equals the number of distinct   *)
(* names registered since the last clear and equals the length of           *)
(* entries(); for every name n, has(n) is true exactly when n is one of     *)
(* those names; get(n) returns n's current entry when has(n) is true and    *)
(* the absent value, without throwing, when has(n) is false.                *)
C16_ReadsAgree ==
  /\ size(_types) = Num(Cardinality(RegisteredNames(calls)))
  /\ size(_types) = Num(Len(entries(_types)[2]))
  /\ \A n \in RegistryNames :
       /\ has(_types, n) = Bool(n \in RegisteredNames(calls))
       /\ get(_types, n) =
            IF has(_types, n) = Bool(TRUE) THEN CurrentEntry(calls, n) ELSE Undefined
  /\ pc = "size" => result = size(_types)
  /\ pc = "entries" => result = entries(_types)
  /\ pc = "has" => result = has(_types, args[1][2])
  /\ pc = "get" => result = get(_types, args[1][2])

\* one name of two is registered, twice: has(objectId) was asked and is true,
\* get(strictDate) is absent
C16_Witness ==
  /\ pc = "has" /\ args = <<Str("objectId")>> /\ result = Bool(TRUE)
  /\ Len(SinceClear(calls)) = 2
  /\ RegisteredNames(calls) = {"objectId"}
  /\ size(_types) = Num(1)
  /\ get(_types, "strictDate") = Undefined

----------------------------------------------------------------------------
(* C17, as stated: for every node whose __mongoType hint is a string, the   *)
(* output bsonType is that string verbatim: 'date' gives 'date', 'objectId' *)
(* gives 'objectId', and any other string s gives bsonType = s.             *)
(* The empty string is falsy and is no hint, and a bsonType key of the node *)
(* itself is copied over the tag.                                           *)
C17_HintVerbatim_Original ==
  LibDone =>
    \A p \in NodePairs(schema, result) :
      IsString(Get(p[1], "__mongoType")) =>
        Get(p[2], "bsonType") = Get(p[1], "__mongoType")

(* C17, amended: for every node whose __mongoType hint is a non-empty       *)
(* string and which has no bsonType key of its own, the output bsonType is  *)
(* that string verbatim: 'date' gives 'date', 'objectId' gives 'objectId',  *)
(* and any other non-empty string s gives bsonType = s.                     *)
C17_HintVerbatim ==
  LibDone =>
    \A p \in NodePairs(schema, result) :
      LET hint == Get(p[1], "__mongoType") IN
      (IsString(hint) /\ hint[2] # "" /\ ~Has(p[1], "bsonType")) =>
        Get(p[2], "bsonType") = hint

\* a node hinted 'decimal', a name the converter does not know, came out with
\* bsonType 'decimal'
C17_Witness ==
  /\ LibDone
  /\ Get(schema, "__mongoType") = Str("decimal")
  /\ Get(schema, "type") = Str("string")
  /\ ~Has(schema, "bsonType")
  /\ Get(result, "bsonType") = Str("decimal")

----------------------------------------------------------------------------
\* an object without one of its keys
WithoutKey(o, key) == Obj([k \in DOMAIN o[2] \ {key} |-> o[2][k]])

----------------------------------------------------------------------------
\* the node signals an integer-only constraint: a boolean flag it exposes, or
\* a constraint-list entry whose kind or format marks integer
SignalsInteger(z) ==
  LET def    == Or(Get(z, "_def"), Get(z, "def"))
      checks == ChecksOf(def)
  IN  \/ Get(z, "isInt") = Bool(TRUE)
      \/ \E i \in DOMAIN checks :
           \/ Get(checks[i], "isInt") = Bool(TRUE)
           \/ Get(checks[i], "kind") = Str("int")
           \/ Get(checks[i], "format") \in { Str("int"), Str("safeint") }

(* C19: the adapter's output for a number node has type 'integer' whenever  *)
(* the node signals an integer-only constraint in either of the known       *)
(* shapes (a directly exposed boolean integer flag, or a constraint-list    *)
(* entry whose kind/format marks integer), and type 'number' exactly when   *)
(* neither shape is present; so number().int() converts end-to-end to       *)
(* bsonType 'int' and a plain number to 'double'.                           *)
(* The number branch looks for a constraint of kind 'int' only: the         *)
(* constraint of number().int(), which exposes isInt and format 'safeint',  *)
(* gives type 'number' and bsonType 'double'.                               *)
C19_IntegerDetection ==
  (KindOf(zodType) = Str("number")) =>
    /\ pc = "toJsonSchema" =>
         Get(result, "type") =
           IF SignalsInteger(zodType) THEN Str("integer") ELSE Str("number")
    /\ pc = "toMongoSchema" =>
         Get(result, "bsonType") =
           IF SignalsInteger(zodType) THEN Str("int") ELSE Str("double")

----------------------------------------------------------------------------
\* the element schema of an array node: def.element, or def.type when that
\* holds a schema and not the kind tag
ElementOf(z) ==
  LET def == Or(Get(z, "_def"), Get(z, "def")) IN
  IF IsObject(Get(def, "type")) THEN Get(def, "type") ELSE Get(def, "element")

(* C20: for every array node with element schema E and every options        *)
(* argument, the adapter returns type 'array' with items equal to the       *)
(* adapter's output for E, whichever of the two probed element fields of    *)
(* the node holds E; the element is never replaced by an empty schema when  *)
(* E is representable.                                                      *)
(* The array branch probes def.type first, which holds the kind tag 'array' *)
(* the branch was selected by: the tag is adapted instead of def.element    *)
(* and items is {}.                                                         *)
C20_ArrayItems ==
  (pc = "toJsonSchema" /\ KindOf(zodType) = Str("array")) =>
    /\ Get(result, "type") = Str("array")
    /\ Get(result, "items") = zodToCompatibleJsonSchema(ElementOf(zodType), options)

----------------------------------------------------------------------------
(* C21: for every inner schema X, the adapter's output for nullable(X) is   *)
(* {anyOf: [adapt(X), {type: 'null'}]}, exactly these two elements in this  *)
(* order and no other key, so the facade maps nullable(string) to           *)
(* {anyOf: [{bsonType: 'string'}, {bsonType: 'null'}]}.                     *)
C21_Nullable ==
  KindOf(zodType) = Str("nullable") =>
    LET X == Get(Get(zodType, "_def"), "innerType") IN
    /\ pc = "toJsonSchema" =>
         result = Obj([anyOf |-> Arr(<< zodToCompatibleJsonSchema(X, options),
                                        Obj([type |-> Str("null")]) >>)])
    /\ (pc = "toMongoSchema" /\ X = zString) =>
         result = Obj([anyOf |-> Arr(<< Obj([bsonType |-> Str("string")]),
                                        Obj([bsonType |-> Str("null")]) >>)])

\* nullable(string) went through the facade
C21_Witness ==
  /\ pc = "toMongoSchema"
  /\ zodType = zNullable(zString)
  /\ Len(Get(result, "anyOf")[2]) = 2
  /\ Get(result, "anyOf")[2][2] = Obj([bsonType |-> Str("null")])

----------------------------------------------------------------------------
(* C22: optional and default wrappers are transparent to the adapter: for   *)
(* every inner schema X, options argument and default value v, the output   *)
(* for optional(X) and for default(X, v) is the output for X; the result    *)
(* has no default key and does not depend on v.                             *)
C22_TransparentWrappers ==
  (pc = "toJsonSchema" /\ KindOf(zodType) \in { Str("optional"), Str("default") }) =>
    LET X == Get(Get(zodType, "_def"), "innerType") IN
    /\ result = zodToCompatibleJsonSchema(X, options)
    /\ ~Has(result, "default")
    /\ \A v \in { Str("v"), Num(1), Null } :
         zodToCompatibleJsonSchema(zDefault(X, v), options) = result

\* default(date, 1) was adapted to what date is adapted to
C22_Witness ==
  /\ pc = "toJsonSchema"
  /\ zodType = zDefault(zDate, Num(1))
  /\ result = Obj([type |-> Str("string"), __mongoType |-> Str("date")])

----------------------------------------------------------------------------
\* the value of a literal node: the first of def.values, or def.value
LiteralValue(z) ==
  LET def == Or(Get(z, "_def"), Get(z, "def")) IN
  IF IsArray(Get(def, "values")) THEN Get(def, "values")[2][1] ELSE Get(def, "value")

(* C23: for every literal node with value v, the adapter returns            *)
(* {type: T, const: v} where T is the run-time type name of v and const is  *)
(* v itself, so literal('active') converts end-to-end to                    *)
(* {bsonType: 'string', const: 'active'}.                                   *)
(* The literal branch reads def.value; the node of literal('active') holds  *)
(* its value in def.values, so the branch returns                           *)
(* {type: 'undefined', const: undefined}.                                   *)
C23_Literal ==
  KindOf(zodType) = Str("literal") =>
    LET v == LiteralValue(zodType) IN
    /\ pc = "toJsonSchema" => result = Obj([type |-> Str(TypeOf(v)), const |-> v])
    /\ (pc = "toMongoSchema" /\ v = Str("active")) =>
         result = Obj([bsonType |-> Str("string"), const |-> Str("active")])

----------------------------------------------------------------------------
(* C24: the facade adds no logic of its own: for every schema s and options *)
(* o, zodSchema(s, o).toJsonSchema() equals the adapter's result for        *)
(* (s, o), and zodSchema(s, o).toMongoSchema() equals the hint-aware        *)
(* converter applied to that result, so every field the adapter marks with  *)
(* a __mongoType hint comes out of toMongoSchema() with that hint as its    *)
(* bsonType.                                                                *)
(* toMongoSchema() applies the definition of index.ts, which is not         *)
(* hint-aware (C4).                                                         *)
C24_Facade ==
  /\ pc = "toJsonSchema" => result = zodToCompatibleJsonSchema(zodType, options)
  /\ (pc = "toMongoSchema" /\ ~IsThrow(zodToCompatibleJsonSchema(zodType, options))) =>
       result = convertJsonSchemaToMongoSchema(
                  zodToCompatibleJsonSchema(zodType, options))

----------------------------------------------------------------------------
\* an optional wrapper one level under a nullable or default wrapper
NestedOptional(z) ==
  /\ KindOf(z) \in { Str("nullable"), Str("default") }
  /\ IsOptionalWrapper(InnerType(Or(Get(z, "_def"), Get(z, "def"))))

(* C25: optionality is detected structurally when computing required: a     *)
(* field whose optional wrapper sits one level under another wrapper (a     *)
(* nullable or default wrapper around an optional schema) is still treated  *)
(* as optional and left out of the parent object's required.                *)
(* The object branch looks at the field's own definition only.              *)
C25_NestedOptional ==
  pc = "toJsonSchema" =>
    \A n \in ObjectNodes(zodType, result) :
      LET fields == EntriesOf(Get(Get(n[1], "_def"), "shape")) IN
      \A i \in DOMAIN fields :
        NestedOptional(fields[i][2]) =>
          \/ ~Has(n[2], "required")
          \/ \A k \in DOMAIN Get(n[2], "required")[2] :
               Get(n[2], "required")[2][k] # Str(fields[i][1])

----------------------------------------------------------------------------
\* every value inside a returned tree, the root included
RECURSIVE AllNodes(_)
AllNodes(v) ==
  {v} \cup
    CASE v[1] = "object" -> UNION { AllNodes(v[2][k]) : k \in DOMAIN v[2] }
      [] v[1] = "array"  -> UNION { AllNodes(v[2][i]) : i \in DOMAIN v[2] }
      [] OTHER -> {}

(* C26: in every tree the adapter returns, for every source schema and      *)
(* options argument, each node that has a __mongoType key also has type     *)
(* equal to the JSON placeholder 'string', and the hint value is a string.  *)
(* The hint of a custom validator is customTypes[name] for the validation   *)
(* function's name, looked up on a plain object: a function named like a    *)
(* member of Object.prototype gets the inherited function as its hint.      *)
C26_HintImpliesString ==
  pc = "toJsonSchema" =>
    \A n \in AllNodes(result) :
      Has(n, "__mongoType") =>
        /\ Get(n, "type") = Str("string")
        /\ IsString(Get(n, "__mongoType"))

----------------------------------------------------------------------------
(* C27: after any sequence of register and clear calls, entries() lists the *)
(* (name, entry) pairs in insertion order: names appear in the order of     *)
(* their first registration since the last clear, and registering an        *)
(* existing name again replaces its entry in place without moving it.       *)
C27_EntriesOrder ==
  LET order    == InsertionOrder(calls)
      expected == Arr([i \in DOMAIN order |->
                         Arr(<<Str(order[i]), CurrentEntry(calls, order[i])>>)])
  IN  /\ entries(_types) = expected
      /\ pc = "entries" => result = expected

\* objectId, strictDate, then objectId again with another entry: entries()
\* still lists objectId first, with the new entry
C27_Witness ==
  /\ pc = "entries"
  /\ Len(calls) = 3
  /\ calls[1][2] = "objectId" /\ calls[2][2] = "strictDate" /\ calls[3][2] = "objectId"
  /\ calls[1][3] # calls[3][3]
  /\ result = Arr(<< Arr(<<Str("objectId"), calls[3][3]>>),
                     Arr(<<Str("strictDate"), calls[2][3]>>) >>)

----------------------------------------------------------------------------
(* C28: the converter is idempotent: for every JSON-Schema-shaped input s,  *)
(* convert(convert(s)) = convert(s); an already converted document passes   *)
(* through unchanged.                                                       *)
C28_Idempotent ==
  LibDone => convertJsonSchemaToMongoSchema(result) = result

\* a document the conversion changed at the root and in a nested schema is
\* left as it is by a second conversion
C28_Witness ==
  /\ LibDone
  /\ Get(schema, "type") = Str("array")
  /\ Get(result, "bsonType") = Str("array")
  /\ IsObject(Get(schema, "items"))
  /\ Get(result, "items") # Get(schema, "items")
  /\ Has(Get(result, "items"), "bsonType")
  /\ convertJsonSchemaToMongoSchema(result) = result

----------------------------------------------------------------------------
(* C29: a bsonType key already present on an input node is copied to the    *)
(* output by the pass-through step and is the final type tag of that node:  *)
(* it replaces the tag derived from the node's type and also the tag        *)
(* derived from its __mongoType hint.                                       *)
C29_OwnBsonType ==
  LibDone =>
    \A p \in NodePairs(schema, result) :
      (p[1][1] = "object" /\ Has(p[1], "bsonType")) =>
        Get(p[2], "bsonType") = Get(p[1], "bsonType")

\* a node with bsonType 'long', type 'number' and hint 'date' came out 'long'
C29_Witness ==
  /\ LibDone
  /\ Get(schema, "bsonType") = Str("long")
  /\ Get(schema, "type") = Str("number")
  /\ Get(schema, "__mongoType") = Str("date")
  /\ Get(result, "bsonType") = Str("long")

----------------------------------------------------------------------------
\* the names the converter removes or consumes as keywords of a node
KeywordNames == DenylistedKeywords \cup { "type", "__mongoType" }

----------------------------------------------------------------------------
(* C8, as stated: the converter commutes with structural nesting:           *)
(* output.items = convert(input.items) and output.not = convert(input.not)  *)
(* when those are schema objects, and for each of allOf, anyOf, oneOf the   *)
(* output sequence has the length of the input sequence with element i      *)
(* equal to convert(input element i), in the same order.                    *)
(* A list element that is not an object (a boolean schema, a number) is     *)
(* kept as it is, not converted.                                            *)
C8_Nesting_Original ==
  LibDone =>
    \A p \in NodePairs(schema, result) :
      /\ \A k \in {"items", "not"} :
           IsObject(Get(p[1], k)) =>
             Get(p[2], k) = convertJsonSchemaToMongoSchema(Get(p[1], k))
      /\ \A k \in {"allOf", "anyOf", "oneOf"} :
           IsArray(Get(p[1], k)) =>
             /\ IsArray(Get(p[2], k))
             /\ Len(Get(p[2], k)[2]) = Len(Get(p[1], k)[2])
             /\ \A n \in DOMAIN Get(p[1], k)[2] :
                  Get(p[2], k)[2][n] =
                    convertJsonSchemaToMongoSchema(Get(p[1], k)[2][n])

(* C8, amended: output.items = convert(input.items) and output.not =        *)
(* convert(input.not) when those are schema objects, and for each of allOf, *)
(* anyOf, oneOf the output sequence has the length of the input sequence,   *)
(* in the same order, with element i equal to convert(input element i)      *)
(* when that element is an object and to the input element itself when it   *)
(* is not.                                                                  *)
C8_Nesting ==
  LibDone =>
    \A p \in NodePairs(schema, result) :
      /\ \A k \in {"items", "not"} :
           IsObject(Get(p[1], k)) =>
             Get(p[2], k) = convertJsonSchemaToMongoSchema(Get(p[1], k))
      /\ \A k \in {"allOf", "anyOf", "oneOf"} :
           IsArray(Get(p[1], k)) =>
             /\ IsArray(Get(p[2], k))
             /\ Len(Get(p[2], k)[2]) = Len(Get(p[1], k)[2])
             /\ \A n \in DOMAIN Get(p[1], k)[2] :
                  Get(p[2], k)[2][n] =
                    IF IsObject(Get(p[1], k)[2][n])
                      THEN convertJsonSchemaToMongoSchema(Get(p[1], k)[2][n])
                      ELSE Get(p[1], k)[2][n]

\* an anyOf of at least two elements, the first {type: 'number'} and the last
\* not an object, was converted in order
C8_Witness ==
  /\ LibDone
  /\ IsArray(Get(schema, "anyOf"))
  /\ Len(Get(schema, "anyOf")[2]) >= 2
  /\ Get(schema, "anyOf")[2][1] = Obj([type |-> Str("number")])
  /\ ~IsObject(Get(schema, "anyOf")[2][Len(Get(schema, "anyOf")[2])])
  /\ Get(result, "anyOf")[2][1] = Obj([bsonType |-> Str("double")])

----------------------------------------------------------------------------
(* C9, as stated: for every node whose properties is a map,                 *)
(* output.properties has exactly the field names of input.properties and    *)
(* each field maps to the conversion of its input value: no declared field  *)
(* is dropped and none is added.                                            *)
(* A field whose value is not an object (a boolean schema, null) is left    *)
(* out of output.properties.                                                *)
C9_Properties_Original ==
  LibDone =>
    \A p \in NodePairs(schema, result) :
      LET ip == Get(p[1], "properties")
          op == Get(p[2], "properties")
      IN  ip[1] = "object" =>
            /\ OwnKeys(op) = OwnKeys(ip)
            /\ \A k \in OwnKeys(ip) :
                 Get(op, k) = convertJsonSchemaToMongoSchema(Get(ip, k))

(* C9, amended: for every node whose properties is a map, output.properties *)
(* has exactly the field names of input.properties whose value is an        *)
(* object, each mapped to the conversion of its input value: a field whose  *)
(* value is not an object is dropped, no other field is dropped and none is *)
(* added.                                                                   *)
C9_Properties ==
  LibDone =>
    \A p \in NodePairs(schema, result) :
      LET ip == Get(p[1], "properties")
          op == Get(p[2], "properties")
      IN  ip[1] = "object" =>
            /\ op[1] = "object"
            /\ OwnKeys(op) = { k \in OwnKeys(ip) : IsObject(Get(ip, k)) }
            /\ \A k \in OwnKeys(op) :
                 Get(op, k) = convertJsonSchemaToMongoSchema(Get(ip, k))

\* properties {a, b, title} with b a hinted string was converted field by field
C9_Witness ==
  /\ LibDone
  /\ OwnKeys(Get(schema, "properties")) = {"a", "b", "title"}
  /\ Get(Get(schema, "properties"), "b") =
       Obj([type |-> Str("string"), __mongoType |-> Str("date")])
  /\ Get(Get(result, "properties"), "b") = Obj([bsonType |-> Str("date")])
  /\ OwnKeys(Get(result, "properties")) = {"a", "b", "title"}

----------------------------------------------------------------------------
(* C10: every key of an input node other than type, __mongoType, the        *)
(* denylisted keywords and the structural keys appears in the output node   *)
(* under the same key with an unchanged value; minimum, maximum, pattern,   *)
(* enum, const, required, minLength, maxLength, minItems and maxItems are   *)
(* never dropped or altered.                                                *)
C10_PassThrough ==
  (LibDone \/ IndexDone) =>
    \A p \in NodePairs(schema, result) :
      \A k \in OwnKeys(p[1]) \ ({"type", "__mongoType"} \cup DenylistedKeywords
                                  \cup StructuralKeys) :
        Has(p[2], k) /\ Get(p[2], k) = Get(p[1], k)

\* a node with the ten constraint keys, a type and a bsonType of its own was
\* converted
C10_Witness ==
  /\ LibDone
  /\ { "minimum", "maximum", "pattern", "enum", "const", "required", "minLength",
       "maxLength", "minItems", "maxItems" } \subseteq OwnKeys(schema)
  /\ Has(schema, "type") /\ Has(schema, "bsonType")
  /\ Get(result, "required") = Arr(<<Str("b"), Str("a")>>)
  /\ Get(result, "bsonType") = Str("long")

====
